---- MODULE Spec2Model ----
(***************************************************************************)
(* MySqlToGoogleCloudStorageOperator (airflow/contrib/operators/           *)
(* mysql_to_gcs.py): one run of execute().  The query result is streamed   *)
(* into local temp files that roll over once the current file reaches      *)
(* approx_max_file_size_bytes, an optional schema file is written, every   *)
(* file of the returned dict is flushed, uploaded and closed.              *)
(*                                                                         *)
(* Names are sequences of tokens ("{}" is the format placeholder); a dict  *)
(* is a sequence of <<key, value>> pairs in insertion order, which is the  *)
(* iteration order of a Python dict.  A file's content is its sequence of  *)
(* lines, its size the bytes tell() reports.  An exception raised by any   *)
(* step leaves execute at once (the code has no try/except/finally).       *)
(***************************************************************************)
EXTENDS Integers, Sequences, FiniteSets, TLC

\* ---- bounds of the model ------------------------------------------------
MaxRows == 3          \* longest query result
MaxRowSize == 2       \* largest encoded row, in bytes
MaxThreshold == 3     \* largest approx_max_file_size_bytes
MaxHeaderSize == 1    \* largest encoded header row, in bytes
MaxColumns == 2       \* most columns of a result whose schema is inferred
MaxTypeCode == 255    \* largest type code tried on type_map (and one beyond: 9999)

\* MySQLdb.constants.FIELD_TYPE, the codes the table of type_map names
FIELD_TYPE_DECIMAL == 0
FIELD_TYPE_TINY == 1
FIELD_TYPE_SHORT == 2
FIELD_TYPE_LONG == 3
FIELD_TYPE_FLOAT == 4
FIELD_TYPE_DOUBLE == 5
FIELD_TYPE_TIMESTAMP == 7
FIELD_TYPE_LONGLONG == 8
FIELD_TYPE_INT24 == 9
FIELD_TYPE_DATE == 10
FIELD_TYPE_DATETIME == 12
FIELD_TYPE_YEAR == 13
FIELD_TYPE_BIT == 16
FIELD_TYPE_NEWDECIMAL == 246

VARIABLES
    PY3,              \* sys.version_info[0] == 3 (line 30)
    csv_writer,       \* _write_local_data_files: the file the csv writer is bound to
    self,             \* the operator's attributes set by __init__
    cursor,           \* the MySQL cursor: description and the rows not yet read
    pc,               \* position of execute
    raisedIn,         \* the step whose exception left execute ("" if none)
    files,            \* every NamedTemporaryFile created, in creation order
    file_no,          \* _write_local_data_files: index of the current data file
    tmp_file_handle,  \* _write_local_data_files: the current file (id in files)
    files_to_upload,  \* the dict name -> file (tmp_file_handles, then execute's)
    idx,              \* position of the running for-loop over files_to_upload
    uploads,          \* the calls made to hook.upload, in order
    bucket,           \* the objects stored in GCS: name -> uploaded file
    schema            \* _write_local_schema_file: its local schema (line 274)

vars == <<PY3, csv_writer, self, cursor, pc, raisedIn, files, file_no, tmp_file_handle,
          files_to_upload, idx, uploads, bucket, schema>>

\* ---- helpers --------------------------------------------------------------
Max(a, b) == IF a > b THEN a ELSE b
CeilDiv(a, b) == (a + b - 1) \div b

RECURSIVE SeqsUpTo(_, _)
SeqsUpTo(S, n) ==
    IF n = 0 THEN {<<>>}
    ELSE LET shorter == SeqsUpTo(S, n - 1)
         IN  shorter \cup {Append(s, x) : s \in {t \in shorter : Len(t) = n - 1}, x \in S}

\* str(n) for the indices the model reaches
Str(n) == <<"0", "1", "2", "3", "4", "5", "6", "7", "8", "9">>[n + 1]

\* str.format with one positional argument: every "{}" becomes str(n);
\* a template without "{}" comes back unchanged
Format(template, n) ==
    [k \in 1..Len(template) |-> IF template[k] = "{}" THEN Str(n) ELSE template[k]]

\* ---- Python dict (insertion ordered) --------------------------------------
DictKeys(d) == {d[k][1] : k \in 1..Len(d)}
DictValues(d) == {d[k][2] : k \in 1..Len(d)}

\* d[key] = value: a present key keeps its position and gets the new value
DictSet(d, key, value) ==
    IF key \in DictKeys(d)
    THEN [k \in 1..Len(d) |-> IF d[k][1] = key THEN <<key, value>> ELSE d[k]]
    ELSE Append(d, <<key, value>>)

\* ---- temp files -----------------------------------------------------------
\* NamedTemporaryFile(delete=True): a new, empty, open file
NamedTemporaryFile(kind, index) ==
    [kind |-> kind, index |-> index, lines |-> <<>>, size |-> 0,
     flushed |-> FALSE, closed |-> 0]

\* file.write / csv_writer.writerow: append one line of the given size
Write(f, line, bytes) ==
    [f EXCEPT !.lines = Append(@, line), !.size = @ + bytes, !.flushed = FALSE]

HeaderLine == <<"header">>
RowLine(n) == <<"row", Str(n)>>

\* json.dumps(row_dict) followed by b'\n' (lines 239-245)
JsonRecord(n) == Append(RowLine(n), "\n")

\* csv_writer.writerow(row) under the default lineterminator (lines 207-208, 232)
CsvRecord(n) == Append(RowLine(n), "\r\n")

\* the bytes one row adds to its file (lines 231-245)
EncodedRow(export_format, n) ==
    IF export_format.file_format = "csv" THEN CsvRecord(n) ELSE JsonRecord(n)

\* ---- configuration --------------------------------------------------------
Filenames == {<<"f", "{}">>, <<"f">>}
SchemaFilenames == {<<>>, <<"s">>, <<"f", "0">>}
ExportFormats ==
    {[file_format |-> ff, csv_columnheader |-> ch] :
        ff \in {"json", "csv"}, ch \in {"absent", "True", "False"}}

\* 'csv_columnheader' in export_format and eval(export_format['csv_columnheader'])
ColumnHeader(export_format) ==
    /\ export_format.csv_columnheader # "absent"
    /\ export_format.csv_columnheader = "True"

\* cursor.description: per column its name (field[0]), type code (field[1])
\* and null_ok (field[6]); the result the row streams of Init belong to
DefaultDescription ==
    <<[name |-> "a", type_code |-> FIELD_TYPE_LONG, null_ok |-> FALSE],
      [name |-> "b", type_code |-> FIELD_TYPE_DATETIME, null_ok |-> FALSE]>>

Init ==
    /\ self \in [sql : {"q"},
                 filename : Filenames,
                 schema_filename : SchemaFilenames,
                 approx_max_file_size_bytes : 1..MaxThreshold,
                 schema : {"none", "blob", "list"},
                 export_format : ExportFormats]
    /\ cursor \in [description : {DefaultDescription},
                   header_size : 1..MaxHeaderSize,
                   rows : SeqsUpTo(1..MaxRowSize, MaxRows),
                   pos : {0}]
    /\ PY3 \in BOOLEAN
    \* self.schema and PY3 are read by the schema step only: they vary for
    \* the schema object name "s", and are None and Python 2 elsewhere
    /\ self.schema_filename # <<"s">> => self.schema = "none" /\ ~PY3
    \* the size of the header row is read only when a header row is written
    /\ ~(self.export_format.file_format = "csv" /\ ColumnHeader(self.export_format))
           => cursor.header_size = 1
    /\ csv_writer = 0
    /\ pc = "query"
    /\ raisedIn = ""
    /\ files = <<>>
    /\ file_no = 0
    /\ tmp_file_handle = 0
    /\ files_to_upload = <<>>
    /\ idx = 0
    /\ uploads = <<>>
    /\ bucket = <<>>
    /\ schema = <<>>

\* an exception that a handler swallows: execute goes on where it was
RaiseSwallowed(step) ==
    /\ pc' = pc
    /\ raisedIn' = step

\* an exception propagates out of execute
Raise(step) ==
    /\ pc' = "raised"
    /\ raisedIn' = step

\* ---- execute: cursor = self._query_mysql() --------------------------------
QueryMysql ==
    /\ pc = "query"
    /\ pc' = "open"
    /\ UNCHANGED <<PY3, csv_writer, self, cursor, raisedIn, files, file_no, tmp_file_handle,
                   files_to_upload, idx, uploads, bucket, schema>>

QueryMysqlFails ==
    /\ pc = "query"
    /\ Raise("query")
    /\ UNCHANGED <<PY3, csv_writer, self, cursor, files, file_no, tmp_file_handle,
                   files_to_upload, idx, uploads, bucket, schema>>

\* ---- _write_local_data_files --------------------------------------------
\* a header row in file 0 whenever csv_columnheader asks for it, JSON included
FirstFileHeaderAnyFormat(export_format) == ColumnHeader(export_format)

\* the header row written into file 0 (lines 186, 222-224)
FirstFileHeader(export_format) ==
    export_format.file_format = "csv" /\ ColumnHeader(export_format)

\* a rollover that opens the new file without writing the header
RolloverNoHeader(export_format) == FALSE

\* the header row written into a file opened by a rollover (lines 255, 259-261)
RolloverHeader(export_format) ==
    export_format.file_format = "csv" /\ ColumnHeader(export_format)

\* a new temp file for data file number n, with its header row if one is due
NewDataFile(n, withHeader) ==
    IF withHeader
    THEN Write(NamedTemporaryFile("data", n), HeaderLine, cursor.header_size)
    ELSE NamedTemporaryFile("data", n)

\* the size check off by one byte
FileIsFullEarly(f, approx_max_file_size_bytes) ==
    f.size + 1 >= approx_max_file_size_bytes

\* the size check with > for >=
FileIsFullStrict(f, approx_max_file_size_bytes) ==
    f.size > approx_max_file_size_bytes

\* tmp_file_handle.tell() >= self.approx_max_file_size_bytes (line 248)
FileIsFull(f, approx_max_file_size_bytes) ==
    f.size >= approx_max_file_size_bytes

\* a rollover that leaves the csv writer on the file it was created for
CsvWriterKept(old, new) == old

\* csv.writer(tmp_file_handle, ...): the writer of the file just opened
\* (lines 214-216 and 256-258)
CsvWriter(old, new) == new

\* the file a row is written to: csv_writer.writerow (line 232) or
\* tmp_file_handle.write (line 242)
RowTarget ==
    IF self.export_format.file_format = "csv" THEN csv_writer ELSE tmp_file_handle

\* lines 180-224: file 0 is created and registered before any row is read
OpenFirstFile ==
    /\ pc = "open"
    /\ csv_writer' = IF self.export_format.file_format = "csv"
                      THEN CsvWriter(csv_writer, Len(files) + 1)
                      ELSE csv_writer
    /\ file_no' = 0
    /\ files' = Append(files, NewDataFile(0, FirstFileHeader(self.export_format)))
    /\ tmp_file_handle' = Len(files) + 1
    /\ files_to_upload' = DictSet(<<>>, Format(self.filename, 0), Len(files) + 1)
    /\ pc' = "rows"
    /\ UNCHANGED <<PY3, self, cursor, raisedIn, idx, uploads, bucket, schema>>

\* NamedTemporaryFile, csv.register_dialect, csv.writer or the header's
\* writerow raises before file 0 is registered
OpenFirstFileFails ==
    /\ pc = "open"
    /\ Raise("open")
    /\ UNCHANGED <<PY3, csv_writer, self, cursor, files, file_no, tmp_file_handle,
                   files_to_upload, idx, uploads, bucket, schema>>

\* lines 226-261: one iteration of "for row in cursor"
WriteRow ==
    /\ pc = "rows"
    /\ cursor.pos < Len(cursor.rows)
    /\ LET n == cursor.pos + 1
           filesW == [files EXCEPT ![RowTarget] =
                         Write(@, EncodedRow(self.export_format, n), cursor.rows[n])]
       IN  /\ cursor' = [cursor EXCEPT !.pos = n]
           /\ IF FileIsFull(filesW[tmp_file_handle], self.approx_max_file_size_bytes)
              THEN /\ file_no' = file_no + 1
                   /\ csv_writer' = IF self.export_format.file_format = "csv"
                                     THEN CsvWriter(csv_writer, Len(files) + 1)
                                     ELSE csv_writer
                   /\ files' = Append(filesW,
                                      NewDataFile(file_no + 1,
                                                  RolloverHeader(self.export_format)))
                   /\ tmp_file_handle' = Len(files) + 1
                   /\ files_to_upload' = DictSet(files_to_upload,
                                                 Format(self.filename, file_no + 1),
                                                 Len(files) + 1)
              ELSE /\ files' = filesW
                   /\ UNCHANGED <<file_no, tmp_file_handle, files_to_upload,
                                  csv_writer>>
    /\ UNCHANGED <<PY3, self, pc, raisedIn, idx, uploads, bucket, schema>>

\* convert_types, json.dumps or csv_writer.writerow raises on the row just
\* pulled: nothing of the row is written
WriteRowFails ==
    /\ pc = "rows"
    /\ cursor.pos < Len(cursor.rows)
    /\ cursor' = [cursor EXCEPT !.pos = @ + 1]
    /\ Raise("rows")
    /\ UNCHANGED <<PY3, csv_writer, self, files, file_no, tmp_file_handle, files_to_upload,
                   idx, uploads, bucket, schema>>

\* the row is written and fills the file, then NamedTemporaryFile raises
\* (line 250, after file_no += 1)
RolloverFails ==
    /\ pc = "rows"
    /\ cursor.pos < Len(cursor.rows)
    /\ LET n == cursor.pos + 1
           filesW == [files EXCEPT ![RowTarget] =
                         Write(@, EncodedRow(self.export_format, n), cursor.rows[n])]
       IN  /\ FileIsFull(filesW[tmp_file_handle], self.approx_max_file_size_bytes)
           /\ cursor' = [cursor EXCEPT !.pos = n]
           /\ files' = filesW
           /\ file_no' = file_no + 1
    /\ Raise("rows")
    /\ UNCHANGED <<PY3, csv_writer, self, tmp_file_handle, files_to_upload,
                   idx, uploads, bucket, schema>>

\* an execute that writes the schema file whether or not a name is set
AlwaysSchema(schema_filename) == "schema"

\* if self.schema_filename: (line 149); an empty name is falsy like None
AfterDataFiles(schema_filename) ==
    IF schema_filename # <<>> THEN "schema" ELSE "flush"

\* line 263 and execute lines 149-150: the cursor is exhausted
ReturnDataFiles ==
    /\ pc = "rows"
    /\ cursor.pos = Len(cursor.rows)
    /\ pc' = AfterDataFiles(self.schema_filename)
    /\ idx' = 1
    /\ UNCHANGED <<PY3, csv_writer, self, cursor, raisedIn, files, file_no, tmp_file_handle,
                   files_to_upload, uploads, bucket, schema>>

\* ---- type_map ---------------------------------------------------------------
\* the dict literal d of lines 342-358, entry by entry (INT24 stands twice)
TypeMapDict ==
    <<<<FIELD_TYPE_INT24, "INTEGER">>,
      <<FIELD_TYPE_TINY, "INTEGER">>,
      <<FIELD_TYPE_BIT, "INTEGER">>,
      <<FIELD_TYPE_DATETIME, "TIMESTAMP">>,
      <<FIELD_TYPE_DATE, "TIMESTAMP">>,
      <<FIELD_TYPE_DECIMAL, "FLOAT">>,
      <<FIELD_TYPE_NEWDECIMAL, "FLOAT">>,
      <<FIELD_TYPE_DOUBLE, "FLOAT">>,
      <<FIELD_TYPE_FLOAT, "FLOAT">>,
      <<FIELD_TYPE_INT24, "INTEGER">>,
      <<FIELD_TYPE_LONG, "INTEGER">>,
      <<FIELD_TYPE_LONGLONG, "INTEGER">>,
      <<FIELD_TYPE_SHORT, "INTEGER">>,
      <<FIELD_TYPE_TIMESTAMP, "TIMESTAMP">>,
      <<FIELD_TYPE_YEAR, "INTEGER">>>>

\* d[key] of a dict literal: the last entry written for the key
DictGet(d, key) ==
    d[CHOOSE k \in 1..Len(d) :
          d[k][1] = key /\ \A j \in (k + 1)..Len(d) : d[j][1] # key][2]

\* a type_map without the 'STRING' fallback for the codes it knows nothing of:
\* the first entry of the table answers for them
type_map_no_fallback(mysql_type) ==
    IF mysql_type \in DictKeys(TypeMapDict)
    THEN DictGet(TypeMapDict, mysql_type)
    ELSE TypeMapDict[1][2]

\* return d[mysql_type] if mysql_type in d else 'STRING' (line 359)
type_map(mysql_type) ==
    IF mysql_type \in DictKeys(TypeMapDict)
    THEN DictGet(TypeMapDict, mysql_type)
    ELSE "STRING"

\* ---- _write_local_schema_file ---------------------------------------------
\* self.schema is None, a str or a list (lines 276, 280); the model carries a
\* tag and these are the values behind the tags
ExplicitBlob == <<"[blob]">>
ExplicitList == <<[name |-> "x", type |-> "STRING", mode |-> "REQUIRED"]>>

\* a mode that follows the source's nullable flag only
FieldModeByFlag(null_ok, field_type) ==
    IF null_ok THEN "NULLABLE" ELSE "REQUIRED"

\* if field[6] or field_type == 'TIMESTAMP' (lines 290-293)
FieldMode(null_ok, field_type) ==
    IF null_ok \/ field_type = "TIMESTAMP" THEN "NULLABLE" ELSE "REQUIRED"

\* lines 283-298: one schema entry per field of cursor.description
InferSchema(description) ==
    [k \in 1..Len(description) |->
        [name |-> description[k].name,
         type |-> type_map(description[k].type_code),
         mode |-> FieldMode(description[k].null_ok,
                            type_map(description[k].type_code))]]

\* json.dumps(schema, sort_keys=True) as its tokens: every object with its
\* keys in sorted order (mode, name, type)
RECURSIVE DumpsEntries(_, _)
DumpsEntries(obj, k) ==
    IF k > Len(obj) THEN <<>>
    ELSE <<"{", "mode", obj[k].mode, "name", obj[k].name,
           "type", obj[k].type, "}">> \o DumpsEntries(obj, k + 1)

JsonDumps(obj) == <<"[">> \o DumpsEntries(obj, 1) \o <<"]">>

\* a schema step that infers from the cursor even when a list is given
LocalSchemaNoList(self_schema, description) ==
    IF self_schema = "blob" THEN ExplicitBlob ELSE InferSchema(description)

\* lines 274-298: the value the local schema gets
LocalSchema(self_schema, description) ==
    IF self_schema = "blob"
    THEN ExplicitBlob
    ELSE IF self_schema = "list"
         THEN ExplicitList
         ELSE InferSchema(description)

\* lines 278 and 300-303: what is written into the schema file
SchemaContent(self_schema, local) ==
    IF self_schema = "blob" THEN local ELSE JsonDumps(local)

\* lines 274-306 and files_to_upload.update(...) of line 150; on Python 3
\* line 278 writes a str to a binary file, which raises
WriteLocalSchemaFile ==
    /\ pc = "schema"
    /\ ~(PY3 /\ self.schema = "blob")
    /\ schema' = LocalSchema(self.schema, cursor.description)
    /\ LET content == SchemaContent(self.schema, schema')
       IN  files' = Append(files, Write(NamedTemporaryFile("schema", 0),
                                       content, Len(content)))
    /\ files_to_upload' = DictSet(files_to_upload, self.schema_filename,
                                  Len(files) + 1)
    /\ pc' = "flush"
    /\ UNCHANGED <<PY3, csv_writer, self, cursor, raisedIn, file_no,
                   tmp_file_handle, idx, uploads, bucket>>

\* Python 3: the temp file is created (line 275), then write(str) on the
\* binary file raises TypeError (line 278), or json.dumps raises TypeError for
\* its second positional argument (line 300, interpreters from 3.6 on)
WriteLocalSchemaFileTypeError ==
    /\ pc = "schema"
    /\ PY3
    /\ files' = Append(files, NamedTemporaryFile("schema", 0))
    /\ schema' = LocalSchema(self.schema, cursor.description)
    /\ Raise("TypeError")
    /\ UNCHANGED <<PY3, csv_writer, self, cursor, file_no, tmp_file_handle,
                   files_to_upload, idx, uploads, bucket>>

\* the temp file cannot be created or written (an I/O error of lines 275-303)
WriteLocalSchemaFileFails ==
    /\ pc = "schema"
    /\ files' = Append(files, NamedTemporaryFile("schema", 0))
    /\ Raise("schema")
    /\ UNCHANGED <<PY3, csv_writer, self, cursor, file_no, tmp_file_handle, files_to_upload,
                   idx, uploads, bucket, schema>>

\* ---- execute: flush, upload, close ----------------------------------------
\* a flush loop that runs over the data files only
FlushDataOnly(f) == IF f.kind = "schema" THEN f ELSE [f EXCEPT !.flushed = TRUE]

\* file_handle.flush() / file_handle.close()
Flush(f) == [f EXCEPT !.flushed = TRUE]
Close(f) == [f EXCEPT !.closed = @ + 1]

\* the pc after the loop body ran for entry idx
LoopNext(here, after) == IF idx < Len(files_to_upload) THEN here ELSE after

\* lines 153-154: one iteration of the flush loop
FlushFile ==
    /\ pc = "flush"
    /\ files' = [files EXCEPT ![files_to_upload[idx][2]] = Flush(@)]
    /\ pc' = LoopNext("flush", "upload")
    /\ idx' = IF idx < Len(files_to_upload) THEN idx + 1 ELSE 1
    /\ UNCHANGED <<PY3, csv_writer, self, cursor, raisedIn, file_no, tmp_file_handle,
                   files_to_upload, uploads, bucket, schema>>

FlushFileFails ==
    /\ pc = "flush"
    /\ Raise("flush")
    /\ UNCHANGED <<PY3, csv_writer, self, cursor, files, file_no, tmp_file_handle,
                   files_to_upload, idx, uploads, bucket, schema>>

\* a MIME type that is application/json whatever the file format
MimeTypeJson(export_format) == <<"application/", "json">>

\* 'application/' + self.export_format['file_format'] (line 315)
MimeType(export_format) == <<"application/", export_format.file_format>>

UploadCall(ok) ==
    [object |-> files_to_upload[idx][1], file |-> files_to_upload[idx][2],
     mime_type |-> MimeType(self.export_format), ok |-> ok]

\* lines 319-320: hook.upload returns and the loop goes on
UploadFile ==
    /\ pc = "upload"
    /\ uploads' = Append(uploads, UploadCall(TRUE))
    /\ bucket' = DictSet(bucket, files_to_upload[idx][1], files_to_upload[idx][2])
    /\ pc' = LoopNext("upload", "close")
    /\ idx' = IF idx < Len(files_to_upload) THEN idx + 1 ELSE 1
    /\ UNCHANGED <<PY3, csv_writer, self, cursor, raisedIn, files, file_no, tmp_file_handle,
                   files_to_upload, schema>>

\* a loop that logs the failed upload and goes on with the next entry
UploadFailedSkips ==
    /\ pc' = LoopNext("upload", "close")
    /\ idx' = IF idx < Len(files_to_upload) THEN idx + 1 ELSE 1
    /\ UNCHANGED raisedIn

\* the for-loop of lines 319-320 has no handler: the exception leaves it
UploadFailed ==
    /\ Raise("upload")
    /\ UNCHANGED idx

\* hook.upload raises: the loop is left, nothing is retried or undone
UploadFileFails ==
    /\ pc = "upload"
    /\ uploads' = Append(uploads, UploadCall(FALSE))
    /\ UploadFailed
    /\ UNCHANGED <<PY3, csv_writer, self, cursor, files, file_no, tmp_file_handle,
                   files_to_upload, bucket, schema>>

\* lines 159-160: one iteration of the close loop
CloseFile ==
    /\ pc = "close"
    /\ files' = [files EXCEPT ![files_to_upload[idx][2]] = Close(@)]
    /\ pc' = LoopNext("close", "done")
    /\ idx' = IF idx < Len(files_to_upload) THEN idx + 1 ELSE 1
    /\ UNCHANGED <<PY3, csv_writer, self, cursor, raisedIn, file_no, tmp_file_handle,
                   files_to_upload, uploads, bucket, schema>>

Next ==
    \/ QueryMysql
    \/ QueryMysqlFails
    \/ OpenFirstFile
    \/ OpenFirstFileFails
    \/ WriteRow
    \/ WriteRowFails
    \/ RolloverFails
    \/ ReturnDataFiles
    \/ WriteLocalSchemaFile
    \/ WriteLocalSchemaFileTypeError
    \/ WriteLocalSchemaFileFails
    \/ FlushFile
    \/ FlushFileFails
    \/ UploadFile
    \/ UploadFileFails
    \/ CloseFile

Spec == Init /\ [][Next]_vars

\* ---- the schema step over the cursor descriptions --------------------------
\* execute with a schema file configured, run over results of every column
\* type: one column of every type code, and up to MaxColumns columns of an
\* integer, a datetime, a decimal, a string and an unknown type, each
\* nullable or not
ColumnNames == <<"a", "b", "c", "d">>
SampleTypeCodes ==
    {FIELD_TYPE_LONG, FIELD_TYPE_DATETIME, FIELD_TYPE_NEWDECIMAL, 253, 9999}

Description(columns) ==
    [k \in 1..Len(columns) |->
        [name |-> ColumnNames[k], type_code |-> columns[k][1], null_ok |-> columns[k][2]]]

SchemaDescriptions ==
    {Description(<<c>>) : c \in ((0..MaxTypeCode) \cup {9999}) \X BOOLEAN}
    \cup {Description(cs) :
             cs \in SeqsUpTo(SampleTypeCodes \X BOOLEAN, MaxColumns) \ {<<>>}}

SchemaInit ==
    /\ PY3 \in BOOLEAN
    /\ csv_writer = 0
    /\ self \in [sql : {"q"},
                 filename : {<<"f", "{}">>},
                 schema_filename : {<<"s">>},
                 approx_max_file_size_bytes : {1},
                 schema : {"none", "blob", "list"},
                 export_format : {[file_format |-> "json",
                                   csv_columnheader |-> "absent"]}]
    /\ cursor \in [description : SchemaDescriptions,
                   header_size : {1},
                   rows : {<<1>>},
                   pos : {0}]
    /\ pc = "query"
    /\ raisedIn = ""
    /\ files = <<>>
    /\ file_no = 0
    /\ tmp_file_handle = 0
    /\ files_to_upload = <<>>
    /\ idx = 0
    /\ uploads = <<>>
    /\ bucket = <<>>
    /\ schema = <<>>

SchemaSpec == SchemaInit /\ [][Next]_vars

\* ---- what the claims speak about ------------------------------------------
\* the created data files (ids in files), in creation order 1..NumDataFiles
DataFileIds == {k \in 1..Len(files) : files[k].kind = "data"}
NumDataFiles == Cardinality(DataFileIds)

\* _write_local_data_files has returned its dict
DataFilesReturned ==
    \/ pc \in {"schema", "flush", "upload", "close", "done"}
    \/ pc = "raised" /\ raisedIn \in {"schema", "TypeError", "flush", "upload"}

\* the indices of the data files that the File Set holds
DataIndicesInFileSet ==
    {files[v].index : v \in {w \in DictValues(files_to_upload) : files[w].kind = "data"}}

HeaderEnabled ==
    self.export_format.file_format = "csv" /\ ColumnHeader(self.export_format)

NumHeaderLines(f) == Cardinality({k \in 1..Len(f.lines) : f.lines[k] = HeaderLine})

\* every row of the result encodes to the same number of bytes
UniformRows == \A k \in 1..Len(cursor.rows) : cursor.rows[k] = cursor.rows[1]
RowBytes == IF cursor.rows = <<>> THEN 1 ELSE cursor.rows[1]
HeaderBytes == IF HeaderEnabled THEN cursor.header_size ELSE 0

\* ---- C1 -------------------------------------------------------------------
\* one iteration of the row loop: the row is written, then the size is checked
C1_RowStepRollsOverIffFull ==
    (pc = "rows" /\ pc' = "rows" /\ cursor'.pos = cursor.pos + 1) =>
        /\ (Len(files') = Len(files) + 1) <=>
               (files'[tmp_file_handle].size >= self.approx_max_file_size_bytes)
        /\ Len(files') = Len(files) + 1 =>
               /\ file_no' = file_no + 1
               /\ files'[Len(files')].index = file_no + 1
        /\ Len(files') # Len(files) + 1 => files' = [files EXCEPT ![tmp_file_handle] = files'[tmp_file_handle]]

C1_IndicesInFileSet ==
    pc = "rows" =>
        /\ DataIndicesInFileSet = 0..file_no
        /\ Len(files_to_upload) = file_no + 1

\* C1: after each row is appended a new data file is opened if and only if the
\* current file's size is >= approx_max_file_size_bytes, the new file gets
\* the previous index plus one, and the data file indices in the File Set are
\* exactly 0..file_no, each held once.
C1_RolloverAndIndices ==
    /\ [][C1_RowStepRollsOverIffFull]_vars
    /\ []C1_IndicesInFileSet

\* ---- C2 -------------------------------------------------------------------
\* C2: when _write_local_data_files has returned, every data file except the
\* one with the highest index has size >= approx_max_file_size_bytes.
C2_AllButLastFileFull ==
    DataFilesReturned =>
        \A k \in DataFileIds :
            files[k].index < file_no => files[k].size >= self.approx_max_file_size_bytes

\* a file was sealed above the threshold and the last file holds a row but
\* stays below it
C2_Witness ==
    /\ DataFilesReturned
    /\ NumDataFiles >= 2
    /\ files[tmp_file_handle].size < self.approx_max_file_size_bytes
    /\ \E k \in 1..Len(files[tmp_file_handle].lines) :
           files[tmp_file_handle].lines[k][1] = "row"
    /\ \E k \in DataFileIds : files[k].size > self.approx_max_file_size_bytes

\* ---- C3 -------------------------------------------------------------------
\* C3 as stated: for N rows of S bytes each and threshold B, the number of data
\* files differs from ceil(N*S / B) by at most 1.
C3_WithinOneOfCeil ==
    (DataFilesReturned /\ UniformRows) =>
        LET c == CeilDiv(Len(cursor.rows) * RowBytes, self.approx_max_file_size_bytes)
        IN  NumDataFiles - c \in {-1, 0, 1}

\* the number of rows a file takes before tell() reaches the threshold
RowsPerFile == Max(1, CeilDiv(self.approx_max_file_size_bytes - HeaderBytes, RowBytes))

\* C3 amended: the number of data files is floor(N / r) + 1 with
\* r = max(1, ceil((B - H) / S)), H the bytes of the header row of each file
\* (0 without header); it is within 1 of ceil(N*S / B) when H = 0 and S
\* divides B.
C3_FileCount ==
    (DataFilesReturned /\ UniformRows) =>
        /\ NumDataFiles = (Len(cursor.rows) \div RowsPerFile) + 1
        /\ (HeaderBytes = 0 /\ self.approx_max_file_size_bytes % RowBytes = 0) =>
               NumDataFiles - CeilDiv(Len(cursor.rows) * RowBytes,
                                      self.approx_max_file_size_bytes) \in {0, 1}

\* three rows, each larger than the threshold: four files where ceil gives six
C3_Witness ==
    /\ DataFilesReturned
    /\ UniformRows
    /\ Len(cursor.rows) = 3
    /\ RowBytes > self.approx_max_file_size_bytes
    /\ NumDataFiles = 4

C5_NoUploadAfterEarlyFailure ==
    raisedIn \in {"query", "open", "rows", "schema", "TypeError", "flush"} =>
        /\ pc = "raised"
        /\ uploads = <<>>
        /\ bucket = <<>>

\* a row fails after a first data file was completely written
C5_Witness ==
    /\ pc = "raised"
    /\ raisedIn = "rows"
    /\ NumDataFiles >= 2
    /\ files[1].size >= self.approx_max_file_size_bytes
    /\ uploads = <<>>

\* ---- C6 -------------------------------------------------------------------
\* C6: whenever execute has exited, by returning or by an exception of any
\* step, every temp file created during the run has been closed exactly once.
C6_EveryFileClosedOnce ==
    pc \in {"done", "raised"} =>
        \A k \in 1..Len(files) : files[k].closed = 1

\* ---- C7 -------------------------------------------------------------------
\* the file ids held by the File Set
FileSetIds == DictValues(files_to_upload)

UploadReturnedFor(k) ==
    \E u \in 1..Len(uploads) : uploads[u].file = k /\ uploads[u].ok

C7_FlushedBeforeUploadAndClose ==
    /\ uploads # <<>> => \A k \in FileSetIds : files[k].flushed
    /\ \A k \in 1..Len(files) :
           files[k].closed > 0 => files[k].flushed /\ UploadReturnedFor(k)

C7_NoWriteAfterFlush ==
    \A k \in 1..Len(files) :
        files[k].flushed => /\ files'[k].lines = files[k].lines
                            /\ files'[k].size = files[k].size
                            /\ files'[k].flushed

\* C7: every file of the File Set is flushed before the first upload call,
\* nothing is written to a file after its flush, and no file is closed before
\* it was flushed and its upload call returned.
C7_FlushUploadCloseOrder ==
    /\ []C7_FlushedBeforeUploadAndClose
    /\ [][C7_NoWriteAfterFlush]_vars

\* a run with two data files and a schema file, all uploaded and closed
C7_Witness ==
    /\ pc = "done"
    /\ Len(files_to_upload) = 3
    /\ \E k \in FileSetIds : files[k].kind = "schema"
    /\ \A k \in FileSetIds : files[k].closed = 1 /\ files[k].flushed
    /\ Len(uploads) = 3

\* ---- C8 -------------------------------------------------------------------
\* C8: in a run where no step fails hook.upload is called exactly once per
\* entry of the File Set, in its order: data file 0, 1, ..., file_no in
\* ascending order and then the schema file when one is configured.
C8_UploadsInCreationOrder ==
    pc = "done" =>
        /\ Len(uploads) = Len(files_to_upload)
        /\ \A k \in 1..Len(uploads) : uploads[k].object = files_to_upload[k][1]
        /\ Len(uploads) = file_no + 1 + (IF self.schema_filename # <<>> THEN 1 ELSE 0)
        /\ \A k \in 1..Len(uploads) :
               /\ uploads[k].file = k
               /\ k <= file_no + 1 =>
                      files[k].kind = "data" /\ files[k].index = k - 1
               /\ k = file_no + 2 => files[k].kind = "schema"

\* ---- C9 -------------------------------------------------------------------
\* C9: the upload calls follow the File Set entry by entry, each entry is
\* attempted at most once; when a call fails execute has aborted, the failed
\* call is the last one made, and every file uploaded before it is still
\* stored (nothing is deleted or rolled back).
C9_UploadFailureAborts ==
    /\ Len(uploads) <= Len(files_to_upload)
    /\ \A k \in 1..Len(uploads) :
           /\ uploads[k].object = files_to_upload[k][1]
           /\ uploads[k].file = files_to_upload[k][2]
           /\ ~uploads[k].ok => k = Len(uploads) /\ pc = "raised" /\ raisedIn = "upload"
           /\ uploads[k].ok => <<uploads[k].object, uploads[k].file>> \in
                                   {bucket[b] : b \in 1..Len(bucket)}
    /\ Len(bucket) = Cardinality({k \in 1..Len(uploads) : uploads[k].ok})

\* the second of three uploads fails: one object stored, the third never tried
C9_Witness ==
    /\ pc = "raised"
    /\ raisedIn = "upload"
    /\ Len(files_to_upload) = 3
    /\ Len(uploads) = 2
    /\ uploads[1].ok
    /\ ~uploads[2].ok
    /\ Len(bucket) = 1

\* ---- C10 ------------------------------------------------------------------
\* C10: every temp file created during the export is held in the File Set
\* under its own name: the File Set has as many entries as files were created.
C10_EveryCreatedFileInFileSet ==
    pc \in {"rows", "flush", "upload", "close", "done"} =>
        /\ Len(files_to_upload) = Len(files)
        /\ FileSetIds = 1..Len(files)

\* ---- C14 ------------------------------------------------------------------
\* the schema step has got past the inference of lines 283-298
SchemaInferred ==
    /\ self.schema = "none"
    /\ \E k \in 1..Len(files) : files[k].kind = "schema"
    /\ raisedIn # "schema"

TimestampCodes == {FIELD_TYPE_TIMESTAMP, FIELD_TYPE_DATE, FIELD_TYPE_DATETIME}

\* C14: in the inferred schema a field is NULLABLE if and only if the source
\* reports it nullable or its type maps to TIMESTAMP, and REQUIRED otherwise
\* (so a non-nullable field of an unknown type code is REQUIRED); the schema
\* has one entry per cursor column, in cursor order.
C14_ModeInference ==
    SchemaInferred =>
        /\ Len(schema) = Len(cursor.description)
        /\ \A k \in 1..Len(schema) :
               LET field == cursor.description[k]
               IN  /\ schema[k].name = field.name
                   /\ schema[k].mode \in {"NULLABLE", "REQUIRED"}
                   /\ schema[k].mode = "NULLABLE" <=>
                          (field.null_ok \/ schema[k].type = "TIMESTAMP")
                   /\ schema[k].mode = "NULLABLE" <=>
                          (field.null_ok \/ field.type_code \in TimestampCodes)
                   /\ (field.type_code = 9999 /\ ~field.null_ok) =>
                          schema[k].mode = "REQUIRED" /\ schema[k].type = "STRING"

\* a non-nullable datetime column that comes out NULLABLE next to a
\* non-nullable column of unknown type that comes out REQUIRED
C14_Witness ==
    /\ SchemaInferred
    /\ Len(schema) = 2
    /\ cursor.description[1].type_code = FIELD_TYPE_DATETIME
    /\ ~cursor.description[1].null_ok
    /\ schema[1].mode = "NULLABLE"
    /\ cursor.description[2].type_code = 9999
    /\ ~cursor.description[2].null_ok
    /\ schema[2].mode = "REQUIRED"

\* ---- C15 ------------------------------------------------------------------
IntegerCodes ==
    {FIELD_TYPE_TINY, FIELD_TYPE_SHORT, FIELD_TYPE_LONG, FIELD_TYPE_LONGLONG,
     FIELD_TYPE_INT24, FIELD_TYPE_BIT, FIELD_TYPE_YEAR}
FloatCodes ==
    {FIELD_TYPE_DECIMAL, FIELD_TYPE_NEWDECIMAL, FIELD_TYPE_DOUBLE, FIELD_TYPE_FLOAT}

\* C15: type_map gives every type code exactly one of INTEGER, FLOAT,
\* TIMESTAMP, STRING: INTEGER for tiny, short, long, longlong, int24, bit and
\* year, FLOAT for decimal, newdecimal, double and float, TIMESTAMP for date,
\* datetime and timestamp, STRING for every other code.
C15_TypeMapTable ==
    SchemaInferred =>
        \A k \in 1..Len(schema) :
            LET code == cursor.description[k].type_code
            IN  /\ schema[k].type \in {"INTEGER", "FLOAT", "TIMESTAMP", "STRING"}
                /\ code \in IntegerCodes => schema[k].type = "INTEGER"
                /\ code \in FloatCodes => schema[k].type = "FLOAT"
                /\ code \in TimestampCodes => schema[k].type = "TIMESTAMP"
                /\ code \notin IntegerCodes \cup FloatCodes \cup TimestampCodes =>
                       schema[k].type = "STRING"

\* a column of a code the table does not name (TIME, 11) mapped to STRING
C15_Witness ==
    /\ SchemaInferred
    /\ Len(schema) = 1
    /\ cursor.description[1].type_code = 11
    /\ schema[1].type = "STRING"

\* ---- C16 ------------------------------------------------------------------
\* the schema files created so far
SchemaFileIds == {k \in 1..Len(files) : files[k].kind = "schema"}

\* C16: once the schema step has run (no I/O error), the schema file holds
\* the blob itself when self.schema is a string, the serialization of the
\* list when it is a list, and the serialization of the schema inferred from
\* the cursor only when no schema is given.
C16_SchemaFilePrecedence ==
    \A k \in SchemaFileIds :
        raisedIn # "schema" =>
            files[k].lines =
                <<CASE self.schema = "blob" -> ExplicitBlob
                    [] self.schema = "list" -> JsonDumps(ExplicitList)
                    [] OTHER -> JsonDumps(InferSchema(cursor.description))>>

\* ---- C11 ------------------------------------------------------------------
HasPlaceholder(template) == \E k \in 1..Len(template) : template[k] = "{}"

\* C11: with a filename template that has no index placeholder the run ends
\* in a failure and no file is uploaded, whatever the rows are.
C11_NoPlaceholderIsFatal ==
    ~HasPlaceholder(self.filename) =>
        /\ pc # "done"
        /\ uploads = <<>>

\* ---- C12 ------------------------------------------------------------------
\* the encoded bytes of rows i..j of the result
RECURSIVE SumRows(_, _)
SumRows(i, j) == IF i > j THEN 0 ELSE cursor.rows[j] + SumRows(i, j - 1)

\* the data records n, n + 1, ..., m as the lines of a file
Records(n, m) ==
    [k \in 1..(m - n + 1) |-> EncodedRow(self.export_format, n + k - 1)]

\* the lines of a data file without its header rows
DataRows(f) == SelectSeq(f.lines, LAMBDA line : line # HeaderLine)

\* file 0 reaches the threshold right after row k, and not before
FirstFullAfter(k) ==
    /\ k \in 1..Len(cursor.rows)
    /\ HeaderBytes + SumRows(1, k) >= self.approx_max_file_size_bytes
    /\ \A j \in 1..(k - 1) :
           HeaderBytes + SumRows(1, j) < self.approx_max_file_size_bytes

\* the rows after row k never bring the second file to the threshold
RestStaysBelow(k) ==
    \A j \in (k + 1)..Len(cursor.rows) :
        HeaderBytes + SumRows(k + 1, j) < self.approx_max_file_size_bytes

\* C12: when file 0 first reaches the threshold right after row k and the
\* rows after k never fill the second file, _write_local_data_files makes
\* exactly two data files, index 0 with rows 1..k and index 1 with rows
\* k+1..N; with CSV headers enabled both start with the header row.
C12_TwoFilesSplitAtK ==
    \A k \in 1..Len(cursor.rows) :
        (DataFilesReturned /\ FirstFullAfter(k) /\ RestStaysBelow(k)) =>
            /\ NumDataFiles = 2
            /\ files[1].kind = "data" /\ files[1].index = 0
            /\ files[2].kind = "data" /\ files[2].index = 1
            /\ DataRows(files[1]) = Records(1, k)
            /\ DataRows(files[2]) = Records(k + 1, Len(cursor.rows))
            /\ HeaderEnabled =>
                   /\ files[1].lines = <<HeaderLine>> \o Records(1, k)
                   /\ files[2].lines =
                          <<HeaderLine>> \o Records(k + 1, Len(cursor.rows))
            /\ ~HeaderEnabled =>
                   /\ files[1].lines = Records(1, k)
                   /\ files[2].lines = Records(k + 1, Len(cursor.rows))

\* CSV with headers, three rows: file 0 fills after row 2, row 3 goes to file 1
C12_Witness ==
    /\ pc = "done"
    /\ HeaderEnabled
    /\ Len(cursor.rows) = 3
    /\ FirstFullAfter(2)
    /\ RestStaysBelow(2)
    /\ Len(files[1].lines) = 3
    /\ Len(files[2].lines) = 2
    /\ files[2].lines[1] = HeaderLine

\* ---- C13 ------------------------------------------------------------------
JsonMode == self.export_format.file_format = "json"

\* the rows written so far (a row whose step raised is not written)
RowsWritten ==
    IF raisedIn = "rows" /\ file_no = NumDataFiles - 1
    THEN cursor.pos - 1
    ELSE cursor.pos

\* the lines of the data files created so far, in index order
RECURSIVE LinesUpTo(_)
LinesUpTo(n) ==
    IF n = 0 THEN <<>>
    ELSE LinesUpTo(n - 1) \o
         (IF files[n].kind = "data" THEN files[n].lines ELSE <<>>)

C13_NoHeaderOneRecordPerRow ==
    JsonMode =>
        /\ \A k \in 1..Len(files) : NumHeaderLines(files[k]) = 0
        /\ Len(LinesUpTo(Len(files))) = RowsWritten
        /\ \A n \in 1..RowsWritten :
               LinesUpTo(Len(files))[n] = <<"row", Str(n), "\n">>

C13_OneFileBelowThreshold ==
    (JsonMode /\ DataFilesReturned
        /\ SumRows(1, Len(cursor.rows)) < self.approx_max_file_size_bytes) =>
        /\ NumDataFiles = 1
        /\ files[1].kind = "data" /\ files[1].index = 0
        /\ files_to_upload[1][1] = Format(self.filename, 0)
        /\ Len(files) = 1 => files_to_upload = <<<<Format(self.filename, 0), 1>>>>
        /\ files[1].lines =
               [n \in 1..Len(cursor.rows) |-> <<"row", Str(n), "\n">>]

\* C13: in JSON mode no file ever holds a header line and every row written
\* is exactly one record ending in exactly one newline; when the size stays
\* below the threshold after every row, there is exactly one data file, named
\* with index 0, holding exactly the N records.
C13_JsonOneFile ==
    /\ C13_NoHeaderOneRecordPerRow
    /\ C13_OneFileBelowThreshold

\* JSON with csv_columnheader set: two rows stay below the threshold and the
\* one file is uploaded with its two records
C13_Witness ==
    /\ JsonMode
    /\ ColumnHeader(self.export_format)
    /\ pc = "done"
    /\ Len(cursor.rows) = 2
    /\ SumRows(1, 2) < self.approx_max_file_size_bytes
    /\ NumDataFiles = 1
    /\ Len(files[1].lines) = 2
    /\ Len(uploads) >= 1

\* ---- C17 ------------------------------------------------------------------
\* the phase of execute: 1 QUERYING, 2 WRITING_DATA, 3 WRITING_SCHEMA,
\* 4 FINALIZED (flush, upload, close); a run that raised stays in the phase
\* it raised in
Phase ==
    LET at == IF pc = "raised" THEN raisedIn ELSE pc
    IN  CASE at = "query" -> 1
          [] at \in {"open", "rows"} -> 2
          [] at \in {"schema", "TypeError"} -> 3
          [] OTHER -> 4

SchemaConfigured == self.schema_filename # <<>>

C17_PhaseStep ==
    /\ Phase' \in {Phase, Phase + 1} \/ (Phase = 2 /\ Phase' = 4)
    /\ (Phase = 2 /\ Phase' = 3) => SchemaConfigured
    /\ (Phase = 2 /\ Phase' = 4) => ~SchemaConfigured
    /\ Phase' = 3 => cursor'.pos = Len(cursor'.rows)
    /\ Phase = 3 => UNCHANGED <<cursor, file_no, tmp_file_handle>>

C17_SchemaPhase ==
    /\ Phase = 3 => SchemaConfigured /\ cursor.pos = Len(cursor.rows)
    /\ Cardinality(SchemaFileIds) <= 1
    /\ ~SchemaConfigured => SchemaFileIds = {}
    /\ (Phase = 4 /\ SchemaConfigured) =>
           /\ Cardinality(SchemaFileIds) = 1
           /\ NumDataFiles = file_no + 1
           /\ files[Len(files)].kind = "schema"

\* C17: execute goes through QUERYING, WRITING_DATA, WRITING_SCHEMA (only
\* when a schema filename is configured) and FINALIZED in this order and
\* never back; the schema phase starts when the cursor is exhausted and
\* leaves exactly one schema file, however large.
C17_PhasesInOrder ==
    /\ [][C17_PhaseStep]_vars
    /\ []C17_SchemaPhase

\* a finished run whose one schema file is larger than the threshold
C17_Witness ==
    /\ pc = "done"
    /\ SchemaConfigured
    /\ Cardinality(SchemaFileIds) = 1
    /\ \A k \in SchemaFileIds : files[k].size > self.approx_max_file_size_bytes
    /\ NumDataFiles >= 2

\* ---- C18 ------------------------------------------------------------------
\* the data rows (headers left out) of the data files created so far, in
\* index order
RECURSIVE DataRowsUpTo(_)
DataRowsUpTo(n) ==
    IF n = 0 THEN <<>>
    ELSE DataRowsUpTo(n - 1) \o
         (IF files[n].kind = "data" THEN DataRows(files[n]) ELSE <<>>)

C18_RowsInOrder ==
    /\ DataRowsUpTo(Len(files)) = Records(1, RowsWritten)
    /\ \A k \in DataFileIds : files[k].index = k - 1

\* a row step writes the row pulled into the file that was current before
\* the step, and into no other file
C18_RowStep ==
    (pc = "rows" /\ pc' = "rows" /\ cursor'.pos = cursor.pos + 1) =>
        /\ files'[tmp_file_handle].lines =
               Append(files[tmp_file_handle].lines,
                      EncodedRow(self.export_format, cursor'.pos))
        /\ \A k \in 1..Len(files) :
               k # tmp_file_handle => files'[k] = files[k]
        /\ \A k \in (Len(files) + 1)..Len(files') : DataRows(files'[k]) = <<>>

\* C18: the data rows of the data files, read in index order with the
\* headers left out, are exactly the cursor's rows written so far in cursor
\* order; each row goes to the one file that was current when it was pulled.
C18_NoRowLostOrMoved ==
    /\ []C18_RowsInOrder
    /\ [][C18_RowStep]_vars

\* CSV with headers, three rows spread over three files
C18_Witness ==
    /\ pc = "done"
    /\ HeaderEnabled
    /\ Len(cursor.rows) = 3
    /\ NumDataFiles = 3
    /\ Len(DataRows(files[1])) >= 1
    /\ Len(DataRows(files[2])) >= 1
    /\ Len(DataRows(files[3])) >= 1

\* ---- C19 ------------------------------------------------------------------
C19_FileZeroFirst ==
    pc \in {"rows", "schema", "flush", "upload", "close", "done"} =>
        /\ NumDataFiles >= 1
        /\ files[1].kind = "data" /\ files[1].index = 0
        /\ (pc = "rows" /\ cursor.pos = 0) =>
               Len(files) = 1 /\ DataRows(files[1]) = <<>>

C19_EmptyResultUploadsFileZero ==
    (pc = "done" /\ cursor.rows = <<>>) =>
        /\ NumDataFiles = 1
        /\ DataRows(files[1]) = <<>>
        /\ UploadReturnedFor(1)

\* the last row of the stream brought its file to the threshold
LastRowFilledItsFile ==
    /\ NumDataFiles >= 2
    /\ files[tmp_file_handle - 1].size >= self.approx_max_file_size_bytes
    /\ LET rows == DataRows(files[tmp_file_handle - 1])
       IN  /\ rows # <<>>
           /\ rows[Len(rows)] = EncodedRow(self.export_format, Len(cursor.rows))

C19_LastFileEmptyIff ==
    DataFilesReturned =>
        /\ files[tmp_file_handle].index = file_no
        /\ DataRows(files[tmp_file_handle]) = <<>> <=>
               (cursor.rows = <<>> \/ LastRowFilledItsFile)

\* C19: there is always at least one data file: file 0 exists before any
\* row is read, a result without rows still yields and uploads file 0 with
\* no data row, and the highest-index file holds no data row exactly when
\* the result is empty or the last row brought its file to the threshold.
C19_AtLeastOneDataFile ==
    /\ C19_FileZeroFirst
    /\ C19_EmptyResultUploadsFileZero
    /\ C19_LastFileEmptyIff

\* ---- C20 ------------------------------------------------------------------
\* C20: every hook.upload call of a run carries 'application/' + file_format
\* (application/json for JSON, application/csv for CSV), the call for the
\* schema file included.
C20_OneMimeType ==
    \A u \in 1..Len(uploads) :
        /\ uploads[u].mime_type = <<"application/", self.export_format.file_format>>
        /\ self.export_format.file_format = "csv" =>
               uploads[u].mime_type = <<"application/", "csv">>
        /\ self.export_format.file_format = "json" =>
               uploads[u].mime_type = <<"application/", "json">>

\* CSV mode: the schema file went up as application/csv
C20_Witness ==
    /\ pc = "done"
    /\ self.export_format.file_format = "csv"
    /\ \E u \in 1..Len(uploads) :
           /\ files[uploads[u].file].kind = "schema"
           /\ uploads[u].ok
           /\ uploads[u].mime_type = <<"application/", "csv">>
    /\ \E u \in 1..Len(uploads) : files[uploads[u].file].kind = "data"
====
